---- MODULE Spec2Model ----
(***************************************************************************)
(* Model of the TLS listener of server.go: the accept loop of Server.Run,  *)
(* the per-connection loop of Server.handleConnection, one read / parse /  *)
(* respond cycle of Server.onTraffic, and Server.SendStatus building the   *)
(* response in a buffer of the shared sync.Pool.  Server.SendBody, which   *)
(* the server itself does not call, is modelled with SendStatus as a       *)
(* method goroutines call (BuildersSpec).                                  *)
(*                                                                         *)
(* Every goroutine is a process with a program counter; a step is the code *)
(* between two calls that block or touch shared memory.  The byte slice of *)
(* a bytes.Buffer is modelled as the backing array it points into, so that *)
(* the slice SendStatus returns and the buffer it has put back to the pool *)
(* are the same memory, as they are in the program.                        *)
(***************************************************************************)
EXTENDS Naturals, Sequences, FiniteSets, TLC

\* -------------------------------------------------------------- bounds
\* Connections the listener hands out before the model stops accepting.
NConns == 2
\* Failed accepts that are counted; the count stays at the bound from there on
\* (the loop itself is unbounded).
MaxAcceptErrs == 2
\* Ticks of the wall clock that time.Now() reads for the Date header.
MaxClock == 1
\* Bytes of the longest body SendBody is called with.
MaxBody == 2

Conns == 1..NConns
\* A fresh buffer is always a possible result of Pool.Get: one per connection
\* is enough for New to be possible whenever the pool is empty.
Buffers == 1..NConns

\* ------------------------------------------------------ program constants
InitialIdle == 5
ResetIdle == 3
StatusOK == 200
StatusBadRequest == 400

VARIABLES
  runPc,       \* Run: "listen", "accept", "returned"
  bound,       \* net.Listen has returned a listener
  accepted,    \* number of successful Accept calls; connections 1..accepted exist
  acceptErrs,  \* number of failed Accept calls, counted up to MaxAcceptErrs
  lastAccept,  \* outcome of the latest Accept call: "none", "ok", "err"
  spawned,     \* per connection: handleConnection goroutines started on it
  pc,          \* per connection: position of its handleConnection goroutine
  dl,          \* per connection: the idle window last set by SetReadDeadline (0: none)
  dlSets,      \* per connection: SetReadDeadline calls since its latest conn.Read returned
  expired,     \* per connection: the read deadline has passed
  reads,       \* per connection: conn.Read calls of this cycle that have returned
  lastRead,    \* per connection: outcome of the latest conn.Read
  data,        \* per connection: the bytes the latest conn.Read returned
  result,      \* per connection: what the latest onTraffic returned
  closes,      \* per connection: number of conn.Close calls
  pool,        \* buffers lying in the sync.Pool
  alloc,       \* buffers created by Pool.New so far: buffers 1..alloc exist
  mem,         \* per buffer: its backing array
  blen,        \* per buffer: its length (the buffer's content is mem[1..blen])
  call,        \* per goroutine: the arguments of its latest SendStatus / SendBody call
  held,        \* per connection: the buffer SendStatus holds (0: none)
  resp,        \* per connection: the slice SendStatus returned: [buf, len]
  built,       \* per connection: the bytes of resp when SendStatus returned
  written,     \* per connection: the bytes conn.Write was given in this cycle
  wrote,       \* per connection: number of conn.Write calls in this cycle
  werr,        \* per connection: the latest conn.Write returned an error
  now          \* wall clock

vars == <<runPc, bound, accepted, acceptErrs, lastAccept, spawned, pc, dl, dlSets, expired,
          reads, lastRead, data, result, closes, pool, alloc, mem, blen, call, held, resp,
          built, written, wrote, werr, now>>

runVars  == <<runPc, bound, accepted, acceptErrs, lastAccept, spawned>>
poolVars == <<pool, alloc, mem, blen, held>>
ioVars   == <<reads, lastRead, data, written, wrote, werr>>

\* ------------------------------------------------------------ wire format
\* A response is a sequence of lines; a line is [k, n, s]: a kind, a number and
\* a text, the values the format string is filled with.
Line(k, n, s) == [k |-> k, n |-> n, s |-> s]

StatusText(code) ==
  CASE code = 200 -> "OK"
    [] code = 400 -> "Bad Request"
    [] code = 404 -> "Not Found"
    [] OTHER -> ""

StatusLine(code)    == Line("HTTP/1.1", code, StatusText(code))
ContentLength(n)    == Line("Content-Length", n, "")
DateLine(t)         == Line("Date", t, "RFC1123")
BlankLine           == Line("", 0, "")

\* (mutant) the fallback carries a Date header like the other responses.
Fallback400WithDate ==
  <<StatusLine(StatusBadRequest), ContentLength(0), DateLine(0), BlankLine>>

\* The literal of the parse-failure path.
Fallback400 == <<StatusLine(StatusBadRequest), ContentLength(0), BlankLine>>

\* The lines SendStatus writes, at wall-clock time t.
SendStatusLines(statusCode, t) ==
  <<StatusLine(statusCode), ContentLength(0), DateLine(t), BlankLine>>

\* One byte of a body, as it lies in a buffer.
BodyByte(ch) == Line("byte", 0, ch)

\* (mutant) the head of SendStatus is reused: Content-Length 0 with a body.
SendBodyLinesLengthZero(statusCode, body, t) ==
  <<StatusLine(statusCode), ContentLength(0), DateLine(t), BlankLine>>
    \o [i \in 1..Len(body) |-> BodyByte(body[i])]

\* The strings SendBody writes, at wall-clock time t: the head with the length
\* of the body, then the body.
SendBodyLines(statusCode, body, t) ==
  <<StatusLine(statusCode), ContentLength(Len(body)), DateLine(t), BlankLine>>
    \o [i \in 1..Len(body) |-> BodyByte(body[i])]

\* ---------------------------------------------------------------- requests
\* strings.ToLower, on the letters the inputs use.
LowerChar(ch) ==
  CASE ch = "C" -> "c"
    [] ch = "L" -> "l"
    [] ch = "O" -> "o"
    [] ch = "S" -> "s"
    [] ch = "E" -> "e"
    [] ch = "K" -> "k"
    [] OTHER -> ch

ToLower(s) == [i \in DOMAIN s |-> LowerChar(s[i])]

close == <<"c", "l", "o", "s", "e">>

\* The bytes of a read: the request line and the raw value of the Connection
\* header (<<>>: no such header).
Bytes(reqline, conn) == [reqline |-> reqline, conn |-> conn]

NoBytes == Bytes("", <<>>)

ConnectionValues ==
  { <<>>, close, <<"C", "L", "O", "S", "E">>, <<"k", "e", "e", "p">> }

Inputs ==
  { Bytes("GET / HTTP/1.1", v) : v \in ConnectionValues }
    \cup { Bytes("garbage", <<>>) }

\* http.ReadRequest: an error unless the first line is a request line; the
\* header values are kept as they were sent.
ReadRequest(d) ==
  IF d.reqline = "GET / HTTP/1.1"
  THEN [err |-> FALSE, Connection |-> d.conn]
  ELSE [err |-> TRUE, Connection |-> <<>>]

\* (mutant) the header value is compared as it was sent.
WantsCloseCaseSensitive(req) == req.Connection = close

\* The test of line 136.
WantsClose(req) == ToLower(req.Connection) = close

\* The arguments of a SendStatus(statusCode) or SendBody(statusCode, body)
\* call; a body is a sequence of bytes.
Args(statusCode, body) == [statusCode |-> statusCode, body |-> body]

NoCall == Args(0, <<>>)

\* ---------------------------------------------------------------- buffers
NoSlice == [buf |-> 0, len |-> 0]

\* The bytes a slice shows now.
SliceBytes(s) == IF s.buf = 0 THEN <<>> ELSE SubSeq(mem[s.buf], 1, s.len)

\* bytes.Buffer.WriteString on a buffer [arr, len]: store at the end of the
\* content, in place while the backing array has room.
WriteString(buf, x) ==
  [arr |-> IF buf.len < Len(buf.arr)
           THEN [buf.arr EXCEPT ![buf.len + 1] = x]
           ELSE Append(SubSeq(buf.arr, 1, buf.len), x),
   len |-> buf.len + 1]

RECURSIVE WriteStrings(_, _)
WriteStrings(buf, xs) ==
  IF xs = <<>> THEN buf
  ELSE WriteStrings(WriteString(buf, Head(xs)), Tail(xs))

\* bytes.Buffer.Reset: the length becomes zero, the backing array is kept.
Reset(buf) == [arr |-> buf.arr, len |-> 0]

\* The buffer b as it is now, and the assignment of a new value to it.
Buf(b) == [arr |-> mem[b], len |-> blen[b]]

SetBuf(b, buf) ==
  /\ mem' = [mem EXCEPT ![b] = buf.arr]
  /\ blen' = [blen EXCEPT ![b] = buf.len]

\* -------------------------------------------------------------------- Init
Init ==
  /\ runPc = "listen"
  /\ bound = FALSE
  /\ accepted = 0
  /\ acceptErrs = 0
  /\ lastAccept = "none"
  /\ spawned = [c \in Conns |-> 0]
  /\ pc = [c \in Conns |-> "none"]
  /\ dl = [c \in Conns |-> 0]
  /\ dlSets = [c \in Conns |-> 0]
  /\ expired = [c \in Conns |-> FALSE]
  /\ reads = [c \in Conns |-> 0]
  /\ lastRead = [c \in Conns |-> "none"]
  /\ data = [c \in Conns |-> NoBytes]
  /\ result = [c \in Conns |-> "none"]
  /\ closes = [c \in Conns |-> 0]
  /\ pool = {}
  /\ alloc = 0
  /\ mem = [b \in Buffers |-> <<>>]
  /\ blen = [b \in Buffers |-> 0]
  /\ call = [c \in Conns |-> NoCall]
  /\ held = [c \in Conns |-> 0]
  /\ resp = [c \in Conns |-> NoSlice]
  /\ built = [c \in Conns |-> <<>>]
  /\ written = [c \in Conns |-> <<>>]
  /\ wrote = [c \in Conns |-> 0]
  /\ werr = [c \in Conns |-> FALSE]
  /\ now = 0

\* --------------------------------------------------------------------- Run
\* (mutant) the error of Listen is logged and Run goes on to its loop.
ListenFailIgnored ==
  /\ runPc = "listen"
  /\ runPc' = "accept"
  /\ UNCHANGED bound
  /\ UNCHANGED <<accepted, acceptErrs, lastAccept, spawned, pc, dl, dlSets, expired, result, closes, resp, built, now, call>>
  /\ UNCHANGED <<poolVars, ioVars>>

\* net.Listen fails: Run returns the error.
ListenFail ==
  /\ runPc = "listen"
  /\ runPc' = "returned"
  /\ UNCHANGED bound
  /\ UNCHANGED <<accepted, acceptErrs, lastAccept, spawned, pc, dl, dlSets, expired, result, closes, resp, built, now, call>>
  /\ UNCHANGED <<poolVars, ioVars>>

ListenOk ==
  /\ runPc = "listen"
  /\ runPc' = "accept"
  /\ bound' = TRUE
  /\ UNCHANGED <<accepted, acceptErrs, lastAccept, spawned, pc, dl, dlSets, expired, result, closes, resp, built, now, call>>
  /\ UNCHANGED <<poolVars, ioVars>>

\* (mutant) the accept error is returned instead of logged.
AcceptFailReturns ==
  /\ runPc = "accept"
  /\ acceptErrs' = IF acceptErrs < MaxAcceptErrs THEN acceptErrs + 1 ELSE acceptErrs
  /\ lastAccept' = "err"
  /\ runPc' = "returned"
  /\ UNCHANGED <<bound, accepted, spawned, pc, dl, dlSets, expired, result, closes, resp, built, now, call>>
  /\ UNCHANGED <<poolVars, ioVars>>

\* Accept returns an error: log and continue.
AcceptFail ==
  /\ runPc = "accept"
  /\ acceptErrs' = IF acceptErrs < MaxAcceptErrs THEN acceptErrs + 1 ELSE acceptErrs
  /\ lastAccept' = "err"
  /\ runPc' = "accept"
  /\ UNCHANGED <<bound, accepted, spawned, pc, dl, dlSets, expired, result, closes, resp, built, now, call>>
  /\ UNCHANGED <<poolVars, ioVars>>

\* (mutant) handleConnection is called without `go`: Run serves the connection
\* itself.
AcceptOkInline ==
  /\ runPc = "accept"
  /\ accepted < NConns
  /\ accepted' = accepted + 1
  /\ lastAccept' = "ok"
  /\ pc' = [pc EXCEPT ![accepted + 1] = "entry"]
  /\ runPc' = "serving"
  /\ spawned' = [spawned EXCEPT ![accepted + 1] = spawned[accepted + 1] + 1]
  /\ UNCHANGED <<bound, acceptErrs, dl, dlSets, expired, result, closes, resp, built, now, call>>
  /\ UNCHANGED <<poolVars, ioVars>>

\* (mutant) the go statement is executed twice for an accepted connection.
AcceptOkSpawnsTwice ==
  /\ runPc = "accept"
  /\ accepted < NConns
  /\ accepted' = accepted + 1
  /\ lastAccept' = "ok"
  /\ pc' = [pc EXCEPT ![accepted + 1] = "entry"]
  /\ runPc' = "accept"
  /\ spawned' = [spawned EXCEPT ![accepted + 1] = spawned[accepted + 1] + 2]
  /\ UNCHANGED <<bound, acceptErrs, dl, dlSets, expired, result, closes, resp, built, now, call>>
  /\ UNCHANGED <<poolVars, ioVars>>

\* Accept returns a connection: go s.handleConnection(NewConnection(conn)).
AcceptOk ==
  /\ runPc = "accept"
  /\ accepted < NConns
  /\ accepted' = accepted + 1
  /\ lastAccept' = "ok"
  /\ pc' = [pc EXCEPT ![accepted + 1] = "entry"]
  /\ runPc' = "accept"
  /\ spawned' = [spawned EXCEPT ![accepted + 1] = spawned[accepted + 1] + 1]
  /\ UNCHANGED <<bound, acceptErrs, dl, dlSets, expired, result, closes, resp, built, now, call>>
  /\ UNCHANGED <<poolVars, ioVars>>

\* -------------------------------------------------------- handleConnection
\* conn.SetReadDeadline(time.Now().Add(d))
SetReadDeadline(c, d) ==
  /\ dl' = [dl EXCEPT ![c] = d]
  /\ dlSets' = [dlSets EXCEPT ![c] = dlSets[c] + 1]
  /\ expired' = [expired EXCEPT ![c] = FALSE]

\* Line 73, then the first call of onTraffic.
Enter(c) ==
  /\ pc[c] = "entry"
  /\ SetReadDeadline(c, InitialIdle)
  /\ pc' = [pc EXCEPT ![c] = "read"]
  /\ UNCHANGED <<runVars, result, closes, resp, built, now, call>>
  /\ UNCHANGED <<poolVars, ioVars>>

\* Lines 76-82: the outcome of onTraffic ends the loop or starts the next cycle.
LoopBreaks(r) == r # "nil"

\* The locals of the onTraffic call that returned are gone; what it returned
\* is remembered until the next read returns, and that the peer has closed its
\* side stays true of the connection.
EndCycle(c) ==
  /\ lastRead' = [lastRead EXCEPT ![c] = IF lastRead[c] = "EOF" THEN "EOF" ELSE "none"]
  /\ data' = [data EXCEPT ![c] = NoBytes]
  /\ written' = [written EXCEPT ![c] = <<>>]
  /\ wrote' = [wrote EXCEPT ![c] = 0]
  /\ werr' = [werr EXCEPT ![c] = FALSE]
  /\ reads' = [reads EXCEPT ![c] = 0]
  /\ UNCHANGED result

\* (mutant) the loop closes the connection itself before it breaks, and the
\* deferred Close follows.
BreakAndClose(c) ==
  /\ pc[c] = "returned"
  /\ LoopBreaks(result[c])
  /\ closes' = [closes EXCEPT ![c] = closes[c] + 1]
  /\ written' = [written EXCEPT ![c] = <<>>]
  /\ wrote' = [wrote EXCEPT ![c] = 0]
  /\ werr' = [werr EXCEPT ![c] = FALSE]
  /\ data' = [data EXCEPT ![c] = NoBytes]
  /\ reads' = [reads EXCEPT ![c] = 0]
  /\ pc' = [pc EXCEPT ![c] = "closing"]
  /\ UNCHANGED <<runVars, dl, dlSets, expired, result, resp, built, now, call>>
  /\ UNCHANGED <<poolVars, lastRead>>

Break(c) ==
  /\ pc[c] = "returned"
  /\ LoopBreaks(result[c])
  /\ written' = [written EXCEPT ![c] = <<>>]
  /\ wrote' = [wrote EXCEPT ![c] = 0]
  /\ werr' = [werr EXCEPT ![c] = FALSE]
  /\ data' = [data EXCEPT ![c] = NoBytes]
  /\ reads' = [reads EXCEPT ![c] = 0]
  /\ pc' = [pc EXCEPT ![c] = "closing"]
  /\ UNCHANGED <<runVars, dl, dlSets, expired, result, closes, resp, built, now, call>>
  /\ UNCHANGED <<poolVars, lastRead>>

\* (mutant) the deadline is not renewed after a cycle.
ContinueKeepsDeadline(c) ==
  /\ pc[c] = "returned"
  /\ ~LoopBreaks(result[c])
  /\ EndCycle(c)
  /\ pc' = [pc EXCEPT ![c] = "read"]
  /\ UNCHANGED <<runVars, dl, dlSets, expired, closes, resp, built, now, call>>
  /\ UNCHANGED poolVars

Continue(c) ==
  /\ pc[c] = "returned"
  /\ ~LoopBreaks(result[c])
  /\ SetReadDeadline(c, ResetIdle)
  /\ EndCycle(c)
  /\ pc' = [pc EXCEPT ![c] = "read"]
  /\ UNCHANGED <<runVars, closes, resp, built, now, call>>
  /\ UNCHANGED poolVars

\* (mutant) closing a connection also stops the listener.
CloseStopsListener(c) ==
  /\ pc[c] = "closing"
  /\ closes' = [closes EXCEPT ![c] = closes[c] + 1]
  /\ pc' = [pc EXCEPT ![c] = "done"]
  /\ runPc' = "returned"
  /\ UNCHANGED <<bound, accepted, acceptErrs, lastAccept, spawned>>
  /\ UNCHANGED <<dl, dlSets, expired, result, resp, built, now, call>>
  /\ UNCHANGED <<poolVars, ioVars>>

\* The deferred conn.Close().
Close(c) ==
  /\ pc[c] = "closing"
  /\ closes' = [closes EXCEPT ![c] = closes[c] + 1]
  /\ pc' = [pc EXCEPT ![c] = "done"]
  /\ UNCHANGED <<runVars, dl, dlSets, expired, result, resp, built, now, call>>
  /\ UNCHANGED <<poolVars, ioVars>>

\* --------------------------------------------------------------- onTraffic
\* (mutant) every read error is taken for a graceful end of stream.
OnReadErrorAllGraceful(errRead) == "nil"

\* What onTraffic returns when conn.Read fails (lines 115-121).
OnReadError(errRead) == IF errRead = "EOF" THEN "nil" ELSE "err"

\* The cycle starts: conn.Read returns.
StartCycle(c, outcome, d) ==
  /\ lastRead' = [lastRead EXCEPT ![c] = outcome]
  /\ data' = [data EXCEPT ![c] = d]
  /\ dlSets' = [dlSets EXCEPT ![c] = 0]
  /\ reads' = [reads EXCEPT ![c] = reads[c] + 1]
  /\ UNCHANGED <<written, wrote, werr, resp, built>>

\* The deadline of a pending read passes with no bytes arrived.
Expire(c) ==
  /\ pc[c] = "read"
  /\ dl[c] # 0
  /\ ~expired[c]
  /\ expired' = [expired EXCEPT ![c] = TRUE]
  /\ UNCHANGED <<runVars, pc, dl, dlSets, result, closes, resp, built, now, call>>
  /\ UNCHANGED <<poolVars, ioVars>>

\* conn.Read returns bytes; they are parsed (lines 123-126).
ReadData(c, d) ==
  /\ pc[c] = "read"
  /\ ~expired[c]
  /\ lastRead[c] # "EOF"
  /\ StartCycle(c, "data", d)
  /\ result' = [result EXCEPT ![c] = "none"]
  /\ pc' = [pc EXCEPT ![c] = IF ReadRequest(d).err THEN "write400" ELSE "get"]
  /\ call' = [call EXCEPT ![c] = IF ReadRequest(d).err THEN NoCall
                                 ELSE Args(StatusOK, <<>>)]
  /\ UNCHANGED <<runVars, dl, expired, closes, now>>
  /\ UNCHANGED poolVars

\* (mutant) a failed read is answered with the 400 as well.
ReadFailsAnswers400(c, errRead) ==
  /\ pc[c] = "read"
  /\ lastRead' = [lastRead EXCEPT ![c] = errRead]
  /\ data' = [data EXCEPT ![c] = NoBytes]
  /\ dlSets' = [dlSets EXCEPT ![c] = 0]
  /\ reads' = [reads EXCEPT ![c] = reads[c] + 1]
  /\ written' = [written EXCEPT ![c] = Fallback400]
  /\ wrote' = [wrote EXCEPT ![c] = wrote[c] + 1]
  /\ result' = [result EXCEPT ![c] = OnReadError(errRead)]
  /\ pc' = [pc EXCEPT ![c] = "returned"]
  /\ UNCHANGED <<runVars, dl, expired, closes, now, call, werr, resp, built>>
  /\ UNCHANGED poolVars

\* conn.Read fails: io.EOF, the deadline, or another I/O error.
ReadFails(c, errRead) ==
  /\ pc[c] = "read"
  /\ StartCycle(c, errRead, NoBytes)
  /\ result' = [result EXCEPT ![c] = OnReadError(errRead)]
  /\ pc' = [pc EXCEPT ![c] = "returned"]
  /\ UNCHANGED <<runVars, dl, expired, closes, now, call>>
  /\ UNCHANGED poolVars

ReadEOF(c) ==
  /\ ~expired[c]
  /\ ReadFails(c, "EOF")

ReadTimeout(c) ==
  /\ expired[c]
  /\ ReadFails(c, "timeout")

ReadError(c) ==
  /\ ~expired[c]
  /\ ReadFails(c, "error")

\* conn.Write(bs): the bytes are taken as they are in memory now; the error
\* the write returns is dropped.
Write(c, bs, ok) ==
  /\ written' = [written EXCEPT ![c] = bs]
  /\ wrote' = [wrote EXCEPT ![c] = wrote[c] + 1]
  /\ werr' = [werr EXCEPT ![c] = ~ok]
  /\ UNCHANGED <<reads, lastRead, data>>

\* (mutant) the 400 is written by a goroutine of its own: go conn.Write(...).
Write400Async(c, ok) ==
  /\ pc[c] = "write400"
  /\ result' = [result EXCEPT ![c] = "nil"]
  /\ pc' = [pc EXCEPT ![c] = "returned"]
  /\ UNCHANGED <<runVars, dl, dlSets, expired, closes, resp, built, now, call>>
  /\ UNCHANGED <<poolVars, ioVars>>

\* Lines 129-131.
Write400(c, ok) ==
  /\ pc[c] = "write400"
  /\ Write(c, Fallback400, ok)
  /\ result' = [result EXCEPT ![c] = "nil"]
  /\ pc' = [pc EXCEPT ![c] = "returned"]
  /\ UNCHANGED <<runVars, dl, dlSets, expired, closes, resp, built, now, call>>
  /\ UNCHANGED poolVars

\* (mutant) any Connection header closes the connection.
AfterWrite200AnyHeader(req) == IF req.Connection # <<>> THEN "EOF" ELSE "nil"

\* What onTraffic returns after the 200 response (lines 136-140).
AfterWrite200(req) == IF WantsClose(req) THEN "EOF" ELSE "nil"

\* Lines 134-140.
Write200(c, ok) ==
  /\ pc[c] = "write200"
  /\ Write(c, SliceBytes(resp[c]), ok)
  /\ result' = [result EXCEPT ![c] = AfterWrite200(ReadRequest(data[c]))]
  /\ resp' = [resp EXCEPT ![c] = NoSlice]
  /\ built' = [built EXCEPT ![c] = <<>>]
  /\ call' = [call EXCEPT ![c] = NoCall]
  /\ pc' = [pc EXCEPT ![c] = "returned"]
  /\ UNCHANGED <<runVars, dl, dlSets, expired, closes, now>>
  /\ UNCHANGED poolVars

\* -------------------------------------------------------------- SendStatus
\* s.bufferPool.Get(): a buffer of the pool, or a new one.
PoolGet(c, b) ==
  /\ \/ /\ b \in pool
        /\ pool' = pool \ {b}
        /\ UNCHANGED alloc
     \/ /\ b = alloc + 1
        /\ b \in Buffers
        /\ alloc' = b
        /\ UNCHANGED pool
  /\ held' = [held EXCEPT ![c] = b]

SendStatusGet(c, b) ==
  /\ pc[c] = "get"
  /\ PoolGet(c, b)
  /\ pc' = [pc EXCEPT ![c] = "reset"]
  /\ UNCHANGED <<runVars, dl, dlSets, expired, result, closes, resp, built, now, call, mem, blen>>
  /\ UNCHANGED ioVars

\* (mutant) the buffer is not reset after Get.
SendStatusSkipReset(c) ==
  /\ pc[c] = "reset"
  /\ pc' = [pc EXCEPT ![c] = "fill"]
  /\ UNCHANGED <<runVars, dl, dlSets, expired, result, closes, resp, built, now, call>>
  /\ UNCHANGED <<poolVars, ioVars>>

\* Line 89.
SendStatusReset(c) ==
  /\ pc[c] = "reset"
  /\ SetBuf(held[c], Reset(Buf(held[c])))
  /\ pc' = [pc EXCEPT ![c] = "fill"]
  /\ UNCHANGED <<runVars, dl, dlSets, expired, result, closes, resp, built, now, call, pool, alloc, held>>
  /\ UNCHANGED ioVars

\* Lines 91-94: the four WriteStrings.  The buffer is held by this call alone
\* and the only line that differs from one call to the next is the Date.
SendStatusFill(c) ==
  /\ pc[c] = "fill"
  /\ SetBuf(held[c], WriteStrings(Buf(held[c]),
                                   SendStatusLines(call[c].statusCode, now)))
  /\ pc' = [pc EXCEPT ![c] = "ret"]
  /\ UNCHANGED <<runVars, dl, dlSets, expired, result, closes, resp, built, now, call, pool, alloc, held>>
  /\ UNCHANGED ioVars

\* (mutant) the buffer stays checked out when SendStatus returns; it is to be
\* put back by the caller after the write.
SendStatusReturnKeepsBuffer(c) ==
  /\ pc[c] = "ret"
  /\ resp' = [resp EXCEPT ![c] = [buf |-> held[c], len |-> blen[held[c]]]]
  /\ built' = [built EXCEPT ![c] = SubSeq(mem[held[c]], 1, blen[held[c]])]
  /\ pc' = [pc EXCEPT ![c] = "write200"]
  /\ UNCHANGED <<runVars, dl, dlSets, expired, result, closes, now, call>>
  /\ UNCHANGED <<poolVars, ioVars>>

\* Line 96 and the deferred Put of line 88: the slice of the buffer's content
\* is returned and the buffer goes back to the pool.
SendStatusReturn(c) ==
  /\ pc[c] = "ret"
  /\ resp' = [resp EXCEPT ![c] = [buf |-> held[c], len |-> blen[held[c]]]]
  /\ built' = [built EXCEPT ![c] = SubSeq(mem[held[c]], 1, blen[held[c]])]
  /\ pool' = pool \cup {held[c]}
  /\ held' = [held EXCEPT ![c] = 0]
  /\ pc' = [pc EXCEPT ![c] = "write200"]
  /\ UNCHANGED <<runVars, dl, dlSets, expired, result, closes, now, call, alloc, mem, blen>>
  /\ UNCHANGED ioVars

\* ---------------------------------------------------------------- SendBody
\* Lines 100-102, as in SendStatus.
SendBodyGet(c, b) ==
  /\ pc[c] = "bodyget"
  /\ PoolGet(c, b)
  /\ pc' = [pc EXCEPT ![c] = "bodyreset"]
  /\ UNCHANGED <<runVars, dl, dlSets, expired, result, closes, resp, built, now, call, mem, blen>>
  /\ UNCHANGED ioVars

SendBodyReset(c) ==
  /\ pc[c] = "bodyreset"
  /\ SetBuf(held[c], Reset(Buf(held[c])))
  /\ pc' = [pc EXCEPT ![c] = "bodyfill"]
  /\ UNCHANGED <<runVars, dl, dlSets, expired, result, closes, resp, built, now, call, pool, alloc, held>>
  /\ UNCHANGED ioVars

\* Lines 104-108: the head and the body.
SendBodyFill(c) ==
  /\ pc[c] = "bodyfill"
  /\ SetBuf(held[c], WriteStrings(Buf(held[c]),
                                   SendBodyLines(call[c].statusCode, call[c].body, now)))
  /\ pc' = [pc EXCEPT ![c] = "bodyret"]
  /\ UNCHANGED <<runVars, dl, dlSets, expired, result, closes, resp, built, now, call, pool, alloc, held>>
  /\ UNCHANGED ioVars

\* (mutant) the Put is not deferred and the return is reached without it.
SendBodyReturnNoPut(c) ==
  /\ pc[c] = "bodyret"
  /\ resp' = [resp EXCEPT ![c] = [buf |-> held[c], len |-> blen[held[c]]]]
  /\ built' = [built EXCEPT ![c] = SubSeq(mem[held[c]], 1, blen[held[c]])]
  /\ held' = [held EXCEPT ![c] = 0]
  /\ pc' = [pc EXCEPT ![c] = "bodydone"]
  /\ UNCHANGED <<runVars, dl, dlSets, expired, result, closes, now, call, pool, alloc, mem, blen>>
  /\ UNCHANGED ioVars

\* Line 110 and the deferred Put of line 101.  The arguments stay with the
\* caller, who goes on with the slice.
SendBodyReturn(c) ==
  /\ pc[c] = "bodyret"
  /\ resp' = [resp EXCEPT ![c] = [buf |-> held[c], len |-> blen[held[c]]]]
  /\ built' = [built EXCEPT ![c] = SubSeq(mem[held[c]], 1, blen[held[c]])]
  /\ pool' = pool \cup {held[c]}
  /\ held' = [held EXCEPT ![c] = 0]
  /\ pc' = [pc EXCEPT ![c] = "bodydone"]
  /\ UNCHANGED <<runVars, dl, dlSets, expired, result, closes, now, call, alloc, mem, blen>>
  /\ UNCHANGED ioVars

\* ------------------------------------------------------------------- clock
Tick ==
  /\ now < MaxClock
  /\ now' = now + 1
  /\ UNCHANGED <<runVars, pc, dl, dlSets, expired, result, closes, resp, built, call>>
  /\ UNCHANGED <<poolVars, ioVars>>

\* -------------------------------------------------------------------- Next
DoEnter == \E c \in Conns : Enter(c)
DoBreak == \E c \in Conns : Break(c)
DoContinue == \E c \in Conns : Continue(c)
DoClose == \E c \in Conns : Close(c)
DoExpire == \E c \in Conns : Expire(c)
DoReadData == \E c \in Conns, d \in Inputs : ReadData(c, d)
DoReadEOF == \E c \in Conns : ReadEOF(c)
DoReadTimeout == \E c \in Conns : ReadTimeout(c)
DoReadError == \E c \in Conns : ReadError(c)
DoWrite400 == \E c \in Conns, ok \in BOOLEAN : Write400(c, ok)
DoWrite200 == \E c \in Conns, ok \in BOOLEAN : Write200(c, ok)
DoSendStatusGet == \E c \in Conns, b \in Buffers : SendStatusGet(c, b)
DoSendStatusReset == \E c \in Conns : SendStatusReset(c)
DoSendStatusFill == \E c \in Conns : SendStatusFill(c)
DoSendStatusReturn == \E c \in Conns : SendStatusReturn(c)

Next ==
  \/ ListenFail
  \/ ListenOk
  \/ AcceptFail
  \/ AcceptOk
  \/ DoEnter
  \/ DoBreak
  \/ DoContinue
  \/ DoClose
  \/ DoExpire
  \/ DoReadData
  \/ DoReadEOF
  \/ DoReadTimeout
  \/ DoReadError
  \/ DoWrite400
  \/ DoWrite200
  \/ DoSendStatusGet
  \/ DoSendStatusReset
  \/ DoSendStatusFill
  \/ DoSendStatusReturn
  \/ Tick

Spec == Init /\ [][Next]_vars

\* Goroutines are scheduled fairly: a step of the loop that does not wait for
\* the peer is taken, and a read whose deadline has passed returns.
Fairness ==
  \A c \in Conns :
    /\ WF_vars(ReadTimeout(c))
    /\ WF_vars(Break(c))
    /\ WF_vars(Continue(c))
    /\ WF_vars(Close(c))

FairSpec == Spec /\ Fairness

\* ------------------------------------------------- the response builders
\* SendStatus and SendBody are methods of Server that any goroutine may call
\* with any status code and body; onTraffic calls SendStatus(200) only and
\* nothing in server.go calls SendBody.  Here the goroutines are callers of
\* the two methods, one call each, concurrently, over the one pool of the
\* Server.
StatusCodes == {200, 400, 404}

Letters == {"a", "b"}

Bodies == UNION { [1..n -> Letters] : n \in 0..MaxBody }

BuildersInit ==
  /\ runPc = "listen"
  /\ bound = FALSE
  /\ accepted = 0
  /\ acceptErrs = 0
  /\ lastAccept = "none"
  /\ spawned = [c \in Conns |-> 0]
  /\ pc = [c \in Conns |-> "idle"]
  /\ dl = [c \in Conns |-> 0]
  /\ dlSets = [c \in Conns |-> 0]
  /\ expired = [c \in Conns |-> FALSE]
  /\ reads = [c \in Conns |-> 0]
  /\ lastRead = [c \in Conns |-> "none"]
  /\ data = [c \in Conns |-> NoBytes]
  /\ result = [c \in Conns |-> "none"]
  /\ closes = [c \in Conns |-> 0]
  /\ pool = {}
  /\ alloc = 0
  /\ mem = [b \in Buffers |-> <<>>]
  /\ blen = [b \in Buffers |-> 0]
  /\ call = [c \in Conns |-> NoCall]
  /\ held = [c \in Conns |-> 0]
  /\ resp = [c \in Conns |-> NoSlice]
  /\ built = [c \in Conns |-> <<>>]
  /\ written = [c \in Conns |-> <<>>]
  /\ wrote = [c \in Conns |-> 0]
  /\ werr = [c \in Conns |-> FALSE]
  /\ now = 0

\* A goroutine calls s.SendStatus(statusCode).
CallSendStatus(c, statusCode) ==
  /\ pc[c] = "idle"
  /\ call' = [call EXCEPT ![c] = Args(statusCode, <<>>)]
  /\ pc' = [pc EXCEPT ![c] = "get"]
  /\ UNCHANGED <<runVars, dl, dlSets, expired, result, closes, resp, built, now>>
  /\ UNCHANGED <<poolVars, ioVars>>

\* A goroutine calls s.SendBody(statusCode, body).
CallSendBody(c, statusCode, body) ==
  /\ pc[c] = "idle"
  /\ call' = [call EXCEPT ![c] = Args(statusCode, body)]
  /\ pc' = [pc EXCEPT ![c] = "bodyget"]
  /\ UNCHANGED <<runVars, dl, dlSets, expired, result, closes, resp, built, now>>
  /\ UNCHANGED <<poolVars, ioVars>>

\* The caller is done with the slice it was returned, and ends.
Drop(c) ==
  /\ pc[c] \in {"write200", "bodydone"}
  /\ resp' = [resp EXCEPT ![c] = NoSlice]
  /\ built' = [built EXCEPT ![c] = <<>>]
  /\ call' = [call EXCEPT ![c] = NoCall]
  /\ pc' = [pc EXCEPT ![c] = "finished"]
  /\ UNCHANGED <<runVars, dl, dlSets, expired, result, closes, now>>
  /\ UNCHANGED <<poolVars, ioVars>>

DoCallSendStatus == \E c \in Conns, statusCode \in StatusCodes : CallSendStatus(c, statusCode)
DoCallSendBody ==
  \E c \in Conns, statusCode \in StatusCodes, body \in Bodies :
    CallSendBody(c, statusCode, body)
DoDrop == \E c \in Conns : Drop(c)
DoSendBodyGet == \E c \in Conns, b \in Buffers : SendBodyGet(c, b)
DoSendBodyReset == \E c \in Conns : SendBodyReset(c)
DoSendBodyFill == \E c \in Conns : SendBodyFill(c)
DoSendBodyReturn == \E c \in Conns : SendBodyReturn(c)

BuildersNext ==
  \/ DoCallSendStatus
  \/ DoCallSendBody
  \/ DoSendStatusGet
  \/ DoSendStatusReset
  \/ DoSendStatusFill
  \/ DoSendStatusReturn
  \/ DoSendBodyGet
  \/ DoSendBodyReset
  \/ DoSendBodyFill
  \/ DoSendBodyReturn
  \/ DoDrop
  \/ Tick

BuildersSpec == BuildersInit /\ [][BuildersNext]_vars

\* ================================================================== claims
\* The spellings of "close" among the header values of the inputs.
CloseSpellings == { close, <<"C", "L", "O", "S", "E">> }

ValidRequest(d) == d.reqline = "GET / HTTP/1.1"

\* C1: after conn.Read reports io.EOF, onTraffic returns the close outcome, the
\* loop of handleConnection ends and no further read is made on the connection.
C1_EofEndsLoop ==
  \A c \in Conns :
    lastRead[c] = "EOF" =>
      /\ pc[c] \in {"returned", "closing", "done"}
      /\ pc[c] = "returned" => result[c] # "nil"

\* C2: the bytes a connection is about to pass to conn.Write are the bytes
\* SendStatus built for it, whatever the other connections do with the pool.
C2_NoCrossTalk ==
  \A c \in Conns :
    pc[c] = "write200" => SliceBytes(resp[c]) = built[c]

\* C3: a failed conn.Write (of the 200 or of the 400) ends the loop of the
\* connection: onTraffic does not return the keep-open outcome after it.
C3_WriteFailureEndsLoop ==
  \A c \in Conns :
    (pc[c] = "returned" /\ werr[c]) => result[c] # "nil"

C4_Written200(c) ==
  /\ wrote[c] = 1
  /\ Len(written[c]) > 0
  /\ written[c][1] = Line("HTTP/1.1", 200, "OK")

C4_CloseRequested(c) ==
  /\ lastRead[c] = "data"
  /\ ValidRequest(data[c])
  /\ data[c].conn \in CloseSpellings

\* C4: a parsed request whose Connection header spells "close" in any letter
\* case gets its 200 response written first; onTraffic then returns the close
\* outcome and handleConnection closes the connection: while that outcome is
\* the latest, the connection is at no read and no deadline has been set.
C4_ConnectionCloseCloses ==
  \A c \in Conns :
    /\ (pc[c] = "returned" /\ C4_CloseRequested(c)) =>
         (C4_Written200(c) /\ result[c] = "EOF")
    /\ result[c] = "EOF" =>
         /\ pc[c] \in {"returned", "closing", "done"}
         /\ dlSets[c] = 0
         /\ closes[c] = IF pc[c] = "done" THEN 1 ELSE 0

\* An upper-case CLOSE was answered with 200 and onTraffic returned the close
\* outcome, while the other connection, after the same outcome, is closed.
C4_Witness ==
  \E c, o \in Conns :
    /\ pc[c] = "returned"
    /\ lastRead[c] = "data"
    /\ data[c].conn = <<"C", "L", "O", "S", "E">>
    /\ C4_Written200(c)
    /\ result[c] = "EOF"
    /\ o # c
    /\ pc[o] = "done"
    /\ result[o] = "EOF"
    /\ closes[o] = 1

\* C5: a read whose idle deadline passes with no bytes fails, onTraffic returns
\* the error, and the connection is closed: conn.Close is called once, never
\* twice and, the goroutine being scheduled, never zero times.
C5_IdleTimeoutClosesOnce ==
  /\ [](\A c \in Conns :
          /\ closes[c] <= 1
          /\ lastRead[c] = "timeout" =>
               /\ pc[c] \in {"returned", "closing", "done"}
               /\ result[c] = "err"
               /\ closes[c] = IF pc[c] = "done" THEN 1 ELSE 0)
  /\ [][\A c \in Conns :
          (pc[c] = "read" /\ expired[c] /\ pc'[c] # pc[c]) =>
             lastRead'[c] = "timeout"]_vars
  /\ \A c \in Conns :
       (pc[c] = "read" /\ expired[c]) ~> (pc[c] = "done" /\ closes[c] = 1)

\* A connection that answered a request, then idled out of its 3 s window and
\* was closed.
C5_Witness ==
  \E c \in Conns :
    /\ pc[c] = "done"
    /\ lastRead[c] = "timeout"
    /\ dl[c] = 3
    /\ closes[c] = 1

C6_Malformed(c) == lastRead[c] = "data" /\ ~ValidRequest(data[c])

\* The loop went on after the keep-open outcome: the connection waits in its
\* next read, open, under a deadline of 3 set once since the outcome.
KeptOpen(c) ==
  /\ pc[c] = "read"
  /\ dl[c] = 3
  /\ dlSets[c] = 1
  /\ closes[c] = 0

\* C6: bytes that do not parse are answered with the literal 400 (status line,
\* Content-Length 0, blank line, no Date), onTraffic returns keep-open and the
\* loop goes on: the deadline is set to 3 s and the next read is made.
C6_MalformedGets400AndStaysOpen ==
  \A c \in Conns :
    /\ (pc[c] = "returned" /\ C6_Malformed(c)) =>
         /\ wrote[c] = 1
         /\ written[c] = << Line("HTTP/1.1", 400, "Bad Request"),
                            Line("Content-Length", 0, ""),
                            Line("", 0, "") >>
         /\ result[c] = "nil"
         /\ closes[c] = 0
    /\ (result[c] = "nil" /\ pc[c] # "returned") => KeptOpen(c)

\* A second malformed request was answered on the same connection.
C6_Witness ==
  \E c \in Conns :
    /\ pc[c] = "returned"
    /\ C6_Malformed(c)
    /\ dl[c] = 3
    /\ wrote[c] = 1

C7_KeepOpenRequested(c) ==
  /\ lastRead[c] = "data"
  /\ ValidRequest(data[c])
  /\ data[c].conn \notin CloseSpellings

\* C7: a parsed request whose Connection header is not "close" gets exactly one
\* write, a 200 response with Content-Length 0; onTraffic returns keep-open and
\* the loop goes on to the next read.
C7_ValidRequestGets200AndStaysOpen ==
  \A c \in Conns :
    /\ (pc[c] = "returned" /\ C7_KeepOpenRequested(c)) =>
         /\ wrote[c] = 1
         /\ Len(written[c]) = 4
         /\ written[c][1] = Line("HTTP/1.1", 200, "OK")
         /\ written[c][2] = Line("Content-Length", 0, "")
         /\ written[c][4] = Line("", 0, "")
         /\ result[c] = "nil"
         /\ closes[c] = 0
    /\ (result[c] = "nil" /\ pc[c] # "returned") => (pc[c] = "read" /\ closes[c] = 0)

\* A request with another Connection value was answered and the connection
\* waits in its next read.
C7_Witness ==
  \E c \in Conns :
    /\ pc[c] = "read"
    /\ result[c] = "nil"
    /\ lastRead[c] = "none"
    /\ dl[c] = 3
    /\ \E o \in Conns : o # c /\ pc[o] = "returned" /\ C7_KeepOpenRequested(o)
                        /\ data[o].conn = <<"k", "e", "e", "p">>

\* C8: every acquisition of a pooled buffer starts from the empty state: its
\* length is zero when the caller writes its first byte, whatever was left in
\* it, so the content the caller builds is its own response and nothing else.
C8_AcquiredBufferStartsEmpty ==
  \A c \in Conns :
    /\ pc[c] = "fill" => (held[c] # 0 /\ blen[held[c]] = 0)
    /\ pc[c] = "ret" =>
         /\ blen[held[c]] = 4
         /\ mem[held[c]][1] = Line("HTTP/1.1", 200, "OK")
         /\ mem[held[c]][2] = Line("Content-Length", 0, "")
         /\ mem[held[c]][3].k = "Date"
         /\ mem[held[c]][4] = Line("", 0, "")

\* A buffer that still has an earlier response in its backing array has been
\* acquired again and is empty, while the other connection builds in its own.
C8_Witness ==
  \E c, o \in Conns :
    /\ c # o
    /\ pc[c] = "fill"
    /\ Len(mem[held[c]]) = 4
    /\ blen[held[c]] = 0
    /\ held[o] # 0

\* C9: a failed Accept never ends the accept loop: Run has returned only if
\* Listen failed, it is at Accept after any number of failures, and a
\* connection can then still be accepted and gets its supervisor.
C9_AcceptErrorKeepsAccepting ==
  /\ runPc = "returned" => (lastAccept = "none" /\ acceptErrs = 0 /\ accepted = 0)
  /\ acceptErrs > 0 => runPc = "accept"
  /\ (acceptErrs > 0 /\ accepted < NConns) => ENABLED AcceptOk
  /\ \A c \in Conns : (lastAccept = "ok" /\ c = accepted) => pc[c] # "none"

\* After the counted number of failures the latest Accept succeeded and its
\* connection has a supervisor.
C9_Witness ==
  /\ acceptErrs = MaxAcceptErrs
  /\ lastAccept = "ok"
  /\ accepted > 0
  /\ pc[accepted] = "entry"

\* C10: the accept loop does not wait for a connection: once a connection has
\* been accepted Run is at Accept again, in every state its supervisor and the
\* earlier ones go through, and the next Accept is possible in each of them.
C10_AcceptNeverWaits ==
  /\ accepted > 0 => runPc = "accept"
  /\ \A c \in Conns : c <= accepted <=> pc[c] # "none"
  /\ (accepted > 0 /\ accepted < NConns) => ENABLED AcceptOk

\* The second connection has been accepted while the first, in a later cycle,
\* waits in its read.
C10_Witness ==
  /\ accepted = 2
  /\ pc[1] = "read"
  /\ dl[1] = 3
  /\ pc[2] = "entry"

\* The connection is between the read of a request and the write of its
\* response.
C11_Responding(c) == pc[c] \in {"get", "reset", "fill", "ret", "write200", "write400"}

\* C11: the cycles of a connection are sequential: while a read is pending no
\* request read before it is unanswered and no write is under way; a response
\* is written only after its one read has returned; and the cycle of a request
\* returns, so that the next read can begin, only with its response written.
C11_CyclesAreSequential ==
  \A c \in Conns :
    /\ pc[c] = "read" => (reads[c] = 0 /\ wrote[c] = 0 /\ lastRead[c] # "data")
    /\ C11_Responding(c) => (reads[c] = 1 /\ wrote[c] = 0 /\ lastRead[c] = "data")
    /\ (pc[c] = "returned" /\ lastRead[c] = "data") => (reads[c] = 1 /\ wrote[c] = 1)
    /\ (ENABLED Continue(c) /\ lastRead[c] = "data") => wrote[c] = 1

\* The read of a second request is pending, after the response to the first
\* was written, while the other connection is writing a response.
C11_Witness ==
  \E c, o \in Conns :
    /\ pc[c] = "read"
    /\ result[c] = "nil"
    /\ lastRead[c] = "none"
    /\ dl[c] = ResetIdle
    /\ pc[o] = "write200"
    /\ built[o] # <<>>

\* A step in which connection c goes towards its end: its onTraffic returns the
\* outcome that breaks the loop, the loop breaks, or the connection is closed.
C12_Terminating(c) ==
  /\ pc'[c] # pc[c]
  /\ \/ pc'[c] \in {"closing", "done"}
     \/ pc'[c] = "returned" /\ LoopBreaks(result'[c])

\* Nothing of connection o changes in the step.
C12_Untouched(o) ==
  /\ pc'[o] = pc[o]
  /\ closes'[o] = closes[o]
  /\ dl'[o] = dl[o]
  /\ dlSets'[o] = dlSets[o]
  /\ expired'[o] = expired[o]
  /\ reads'[o] = reads[o]
  /\ lastRead'[o] = lastRead[o]
  /\ data'[o] = data[o]
  /\ result'[o] = result[o]
  /\ call'[o] = call[o]
  /\ held'[o] = held[o]
  /\ resp'[o] = resp[o]
  /\ SliceBytes(resp[o])' = SliceBytes(resp[o])
  /\ built'[o] = built[o]
  /\ written'[o] = written[o]
  /\ wrote'[o] = wrote[o]
  /\ werr'[o] = werr[o]

\* C12: a step by which a connection ends (its cycle returns the breaking
\* outcome, its loop breaks, it is closed) changes nothing of any other
\* connection (position, open or closed, deadline, cycle in progress and the
\* bytes it is about to write) and nothing of the listener.
C12_TerminationIsLocal ==
  [][\A c \in Conns :
       C12_Terminating(c) =>
         /\ UNCHANGED runVars
         /\ \A o \in Conns \ {c} : C12_Untouched(o)]_vars

\* One connection has been closed after an idle timeout while the other is in
\* the middle of a cycle and the listener accepts.
C12_Witness ==
  \E c, o \in Conns :
    /\ pc[c] = "done"
    /\ closes[c] = 1
    /\ lastRead[c] = "timeout"
    /\ pc[o] = "write200"
    /\ closes[o] = 0
    /\ dl[o] = InitialIdle
    /\ runPc = "accept"

\* The goroutine is inside SendStatus or SendBody, after its Get.
C13_Building(c) ==
  pc[c] \in {"reset", "fill", "ret", "bodyreset", "bodyfill", "bodyret"}

\* The buffers that are checked out.
C13_CheckedOut == { held[c] : c \in Conns } \ {0}

\* C13: a buffer is checked out exactly while the SendStatus or SendBody that
\* acquired it is running, and is then in the pool again: a buffer is never in
\* the pool while held, never held by two calls, and every buffer that exists
\* is either held by a running call or in the pool.
C13_BuffersReleasedOnce ==
  /\ \A c \in Conns : held[c] # 0 <=> C13_Building(c)
  /\ \A c, o \in Conns : (c # o /\ held[c] # 0) => held[c] # held[o]
  /\ C13_CheckedOut \cap pool = {}
  /\ C13_CheckedOut \cup pool = 1..alloc

\* A SendBody holds one buffer while the buffer of a call that has returned is
\* in the pool, and the second call has taken a new one.
C13_Witness ==
  \E c, o \in Conns :
    /\ pc[c] = "bodyfill"
    /\ held[c] = 2
    /\ pc[o] = "write200"
    /\ pool = {1}
    /\ alloc = 2

\* C14: however the loop of handleConnection ends, conn.Close is called exactly
\* once: never before the loop has ended, once after it (the goroutine being
\* scheduled), never again; and after it no read returns, nothing is written
\* and no deadline is set on the connection.
C14_ClosedExactlyOnce ==
  /\ [](\A c \in Conns : closes[c] = IF pc[c] = "done" THEN 1 ELSE 0)
  /\ [][\A c \in Conns :
          closes[c] > 0 =>
            /\ pc'[c] = pc[c]
            /\ reads'[c] = reads[c]
            /\ lastRead'[c] = lastRead[c]
            /\ wrote'[c] = wrote[c]
            /\ written'[c] = written[c]
            /\ dlSets'[c] = dlSets[c]
            /\ dl'[c] = dl[c]]_vars
  /\ \A c \in Conns : (pc[c] = "closing") ~> (closes[c] = 1)

\* One connection was closed after a read error, the other after a request
\* with Connection: close.
C14_Witness ==
  \E c, o \in Conns :
    /\ pc[c] = "done"
    /\ closes[c] = 1
    /\ lastRead[c] = "error"
    /\ pc[o] = "done"
    /\ closes[o] = 1
    /\ result[o] = "EOF"

\* C15: a pending read has had its deadline set exactly once since the read
\* before it returned: to 5 on entry for the first read of the connection, to
\* 3 after the cycle before it returned the continue outcome for every later
\* one.
C15_DeadlineSchedule ==
  \A c \in Conns :
    /\ pc[c] = "entry" => (dl[c] = 0 /\ dlSets[c] = 0)
    /\ pc[c] = "read" =>
         /\ dlSets[c] = 1
         /\ result[c] \in {"none", "nil"}
         /\ result[c] = "none" => dl[c] = 5
         /\ result[c] = "nil" => dl[c] = 3
    /\ (pc[c] = "read" /\ dl[c] = 5) => (result[c] = "none" /\ lastRead[c] = "none")

\* One connection waits in its first read under 5, the other in a later read
\* under 3.
C15_Witness ==
  \E c, o \in Conns :
    /\ pc[c] = "read"
    /\ result[c] = "none"
    /\ dl[c] = 5
    /\ pc[o] = "read"
    /\ result[o] = "nil"
    /\ dl[o] = 3
    /\ dlSets[o] = 1

\* C16: every accepted connection has exactly one supervisor and no other
\* connection has any: the goroutines started are as many as the successful
\* accepts, one on each connection accepted.
C16_OneSupervisorPerConnection ==
  /\ \A c \in Conns : spawned[c] = IF c <= accepted THEN 1 ELSE 0
  /\ \A c \in Conns : pc[c] # "none" <=> spawned[c] = 1
  /\ Cardinality({ c \in Conns : spawned[c] > 0 }) = accepted

\* Both connections have been accepted and the supervisor of each is building
\* a response.
C16_Witness ==
  /\ accepted = 2
  /\ spawned[1] = 1
  /\ spawned[2] = 1
  /\ pc[1] = "fill"
  /\ pc[2] = "fill"

\* C17: an onTraffic that has returned made exactly one read, and one write if
\* the read returned bytes (the 200 for a request that parses, the 400 for one
\* that does not), no write if the read returned EOF or an error; no cycle has
\* more than one read or more than one write at any point.
C17_OneReadAtMostOneWrite ==
  \A c \in Conns :
    /\ reads[c] <= 1
    /\ wrote[c] <= 1
    /\ pc[c] = "returned" =>
         /\ reads[c] = 1
         /\ lastRead[c] \in {"data", "EOF", "timeout", "error"}
         /\ lastRead[c] = "data" =>
              /\ wrote[c] = 1
              /\ written[c][1].n = IF ValidRequest(data[c]) THEN 200 ELSE 400
         /\ lastRead[c] # "data" => (wrote[c] = 0 /\ written[c] = <<>>)

\* The cycle of one connection returned after a read that timed out, without
\* a write, and that of the other after bytes that did not parse, with one.
C17_Witness ==
  \E c, o \in Conns :
    /\ pc[c] = "returned"
    /\ lastRead[c] = "timeout"
    /\ wrote[c] = 0
    /\ pc[o] = "returned"
    /\ lastRead[o] = "data"
    /\ ~ValidRequest(data[o])
    /\ wrote[o] = 1

\* C18: Run has returned only after a failed Listen, with no Accept called and
\* no supervisor started, and takes no further step (no retry); Accept is
\* called only on a listener that was bound, and with the listener bound Run
\* is in its accept loop, not returned.
C18_BindFailureIsFatal ==
  /\ runPc = "returned" =>
       /\ ~bound
       /\ lastAccept = "none"
       /\ accepted = 0
       /\ acceptErrs = 0
       /\ \A c \in Conns : spawned[c] = 0 /\ pc[c] = "none"
       /\ ~ENABLED (ListenFail \/ ListenOk \/ AcceptFail \/ AcceptOk)
  /\ bound <=> runPc = "accept"
  /\ (lastAccept # "none" \/ accepted > 0 \/ acceptErrs > 0) => bound

\* Listen has failed and Run has returned.
C18_Witness ==
  /\ runPc = "returned"
  /\ ~bound
  /\ accepted = 0
  /\ ~ENABLED Next

\* r is the response to statusCode with this body: the status line, the
\* Content-Length with the number of bytes of the body, a Date, the empty
\* line, and the bytes of the body in their order.
C19_Framed(r, statusCode, body) ==
  /\ Len(r) = 4 + Len(body)
  /\ r[1] = Line("HTTP/1.1", statusCode, StatusText(statusCode))
  /\ r[2] = Line("Content-Length", Len(body), "")
  /\ r[3].k = "Date"
  /\ r[3].n \in 0..now
  /\ r[4] = Line("", 0, "")
  /\ \A i \in 1..Len(body) : r[4 + i] = Line("byte", 0, body[i])

\* C19: what SendBody returns is the framing of its status code and body, with
\* Content-Length the number of body bytes, and what SendStatus returns is the
\* same framing with no body and Content-Length 0, whatever the buffer held
\* before and whatever other calls are running.
C19_ResponseFraming ==
  \A c \in Conns :
    /\ pc[c] = "bodydone" => C19_Framed(built[c], call[c].statusCode, call[c].body)
    /\ pc[c] = "write200" =>
         /\ C19_Framed(built[c], call[c].statusCode, <<>>)
         /\ built[c][2].n = 0

\* SendBody has returned a 404 with a body of two bytes, built in the one
\* buffer there is, which the call of the other goroutine had used before.
C19_Witness ==
  \E c, o \in Conns :
    /\ pc[c] = "bodydone"
    /\ call[c] = Args(404, <<"a", "b">>)
    /\ Len(built[c]) = 6
    /\ alloc = 1
    /\ pc[o] = "finished"

\* The supervisor is in a conn.Read or about to make its conn.Write.
C20_InConnIO(c) == pc[c] \in {"read", "write200", "write400"}

====
